---- MODULE Spec2Model ----
(***************************************************************************)
(* crystalz: read_xyz (src/crystalz/io/xyz.py) followed by the overlaps    *)
(* voxelisation kernel (src/crystalz/preprocessing/overlaps.py).           *)
(*                                                                         *)
(* Lengths are integers in units of 0.01 Angstrom, so that the van der     *)
(* Waals table of xyz.py (1.84, 1.93, 1.87, 1.52) is exact.  The kernel's  *)
(* arithmetic is carried out on exact rationals <<numerator, denominator>> *)
(* in lowest terms; the binary rounding of numpy's float64 is modelled     *)
(* separately (see the floating-point section) for the wrap step.          *)
(***************************************************************************)
EXTENDS Integers, Sequences, FiniteSets, TLC

(***************************************************************************)
(* Exact rational arithmetic                                               *)
(***************************************************************************)
Abs(n) == IF n < 0 THEN -n ELSE n

RECURSIVE GCD(_, _)
GCD(a, b) == IF b = 0 THEN a ELSE GCD(b, a % b)

\* n/d in lowest terms with a positive denominator (d # 0)
Norm(n, d) ==
    LET s == IF d < 0 THEN -1 ELSE 1
        g == GCD(Abs(n), Abs(d))
    IN  <<(s * n) \div g, (s * d) \div g>>

RInt(n) == <<n, 1>>

RAdd(p, q) ==
    LET g == GCD(p[2], q[2])
    IN  Norm(p[1] * (q[2] \div g) + q[1] * (p[2] \div g), (p[2] \div g) * q[2])

RNeg(p) == <<-p[1], p[2]>>

RSub(p, q) == RAdd(p, RNeg(q))

RMul(p, q) ==
    LET g1 == GCD(Abs(p[1]), q[2])
        g2 == GCD(Abs(q[1]), p[2])
    IN  Norm((p[1] \div g1) * (q[1] \div g2), (p[2] \div g2) * (q[2] \div g1))

RLeq(p, q) == p[1] * q[2] <= q[1] * p[2]

\* np.floor: the greatest integer not above p (\div rounds towards minus infinity)
RFloor(p) == p[1] \div p[2]

\* a 3-vector of integers as a 3-vector of rationals
RVec(v) == [c \in 1..3 |-> RInt(v[c])]

\* matrix @ vector, the matrix a sequence of three rows
MatVec(A, v) ==
    [r \in 1..3 |-> RAdd(RAdd(RMul(A[r][1], v[1]), RMul(A[r][2], v[2])),
                         RMul(A[r][3], v[3]))]

\* matrix.T @ vector
MatTVec(A, v) ==
    [c \in 1..3 |-> RAdd(RAdd(RMul(A[1][c], v[1]), RMul(A[2][c], v[2])),
                         RMul(A[3][c], v[3]))]

\* determinant of an integer 3x3 matrix
Det(V) ==
      V[1][1] * (V[2][2] * V[3][3] - V[2][3] * V[3][2])
    - V[1][2] * (V[2][1] * V[3][3] - V[2][3] * V[3][1])
    + V[1][3] * (V[2][1] * V[3][2] - V[2][2] * V[3][1])

Nxt(n) == (n % 3) + 1

\* cofactor (r, c) of an integer 3x3 matrix, by cyclic indices
Cofactor(V, r, c) ==
      V[Nxt(r)][Nxt(c)] * V[Nxt(Nxt(r))][Nxt(Nxt(c))]
    - V[Nxt(r)][Nxt(Nxt(c))] * V[Nxt(Nxt(r))][Nxt(c)]


(***************************************************************************)
(* io/xyz.py                                                               *)
(***************************************************************************)
\* VDW_RADII, in 0.01 Angstrom
VDW_RADII == [Al |-> 184, In |-> 193, Ga |-> 187, O |-> 152]

\* Words are sequences of characters, so that str.startswith is a prefix test
ATOM == <<"a", "t", "o", "m">>

LATTICE_VECTOR ==
    <<"l", "a", "t", "t", "i", "c", "e", "_", "v", "e", "c", "t", "o", "r">>

HASH == <<"#">>

\* str.startswith
StartsWith(word, prefix) ==
    /\ Len(word) >= Len(prefix)
    /\ SubSeq(word, 1, Len(prefix)) = prefix

\* A line is the sequence of its whitespace-separated tokens (line.strip() and
\* line.split() done).  The first token is a word; each further token is
\* <<"num", n>>, a text float() reads as n, or <<"sym", s>>, any other text s.
\* The stripped line starts with a prefix that holds no blank exactly when its
\* first token does.
LineStartsWith(line, prefix) == Len(line) > 0 /\ StartsWith(line[1], prefix)

Num(n) == <<"num", n>>

Sym(s) == <<"sym", s>>

\* float(token) succeeds on a number token and raises ValueError otherwise
IsNumber(token) == token[1] = "num"

\* float(token), in 0.01 Angstrom
Float(token) == token[2]

\* the text of a token that is no number
Text(token) == token[2]

(***************************************************************************)
(* preprocessing/overlaps.py: the pure functions                           *)
(***************************************************************************)
\* center + k1 * v1 + k2 * v2 + k3 * v3
Translate(center, vecs, k1, k2, k3) ==
    [c \in 1..3 |-> center[c] + k1 * vecs[1][c] + k2 * vecs[2][c] + k3 * vecs[3][c]]

\* the inner loop of repeat_once, for one (k1, k2, k3): one entry per atom, in order
ImagesOf(cs, rs, vecs, k1, k2, k3) ==
    [a \in 1..Len(cs) |->
        [center |-> Translate(cs[a], vecs, k1, k2, k3), radius |-> rs[a]]]

\* it.product(repetition, repetition, repetition): the last index runs fastest
ProductK3(cs, rs, vecs, k1, k2) ==
    ImagesOf(cs, rs, vecs, k1, k2, -1) \o ImagesOf(cs, rs, vecs, k1, k2, 0)
        \o ImagesOf(cs, rs, vecs, k1, k2, 1)

ProductK2(cs, rs, vecs, k1) ==
    ProductK3(cs, rs, vecs, k1, -1) \o ProductK3(cs, rs, vecs, k1, 0)
        \o ProductK3(cs, rs, vecs, k1, 1)

\* repeat_once with `repetition = range(-1, 1)`: the +1 copies along v1 are lost
repeat_once_short(cs, rs, vecs) ==
    ProductK2(cs, rs, vecs, -1) \o ProductK2(cs, rs, vecs, 0)

\* repeat_once: the sequence of (center, radius) entries, the two returned arrays
\* being its two columns
repeat_once(cs, rs, vecs) ==
    ProductK2(cs, rs, vecs, -1) \o ProductK2(cs, rs, vecs, 0)
        \o ProductK2(cs, rs, vecs, 1)

LCM(a, b) == (a \div GCD(a, b)) * b

\* squared_distances < squared_radii: a point on the sphere is left out
Within_strict(m, q, c, sq) ==
    (m[1] - q * c[1]) * (m[1] - q * c[1]) + (m[2] - q * c[2]) * (m[2] - q * c[2])
        + (m[3] - q * c[3]) * (m[3] - q * c[3]) < sq * q * q

\* squared_distances <= squared_radii for one center, the point M being m / q
\* (three numerators over the common denominator q) and the center c integers:
\* sum((m/q - c)**2) <= sq  iff  sum((m - q*c)**2) <= sq * q**2
Within(m, q, c, sq) ==
    (m[1] - q * c[1]) * (m[1] - q * c[1]) + (m[2] - q * c[2]) * (m[2] - q * c[2])
        + (m[3] - q * c[3]) * (m[3] - q * c[3]) <= sq * q * q

\* lookup_voxel on a non-empty (n, 3) array of centers: the number of True
\* entries of squared_distances <= squared_radii
lookup_voxel(M_cell, cs, sq) ==
    LET Count(P, q) ==
            Cardinality({n \in 1..Len(cs) :
                Within(<<P[1][1] * (q \div P[1][2]), P[2][1] * (q \div P[2][2]),
                         P[3][1] * (q \div P[3][2])>>, q, cs[n], sq[n])})
    IN  CHOOSE count \in
            { Count(P, LCM(LCM(P[1][2], P[2][2]), P[3][2])) : P \in {M_cell} } : TRUE

\* np.linalg.inv(vectors).T: the matrix of cofactors over the determinant
TransferMatrix(V) ==
    [r \in 1..3 |-> [c \in 1..3 |-> Norm(Cofactor(V, r, c), Det(V))]]

\* M_lattice - np.floor(M_lattice)
Fractional(M_lattice) == [c \in 1..3 |-> RSub(M_lattice[c], RInt(RFloor(M_lattice[c])))]

\* M_cell = vectors.T @ (M_lattice - np.floor(M_lattice)), M_lattice = transfer_matrix @ M
Wrap(V, T, M) ==
    LET Vr == [r \in 1..3 |-> RVec(V[r])]
    IN  MatTVec(Vr, Fractional(MatVec(T, M)))

\* np.linspace(0, max, num=N, endpoint=False)[n]: n * step with step = max / N
Linspace(max, N, n) == RMul(RInt(n), Norm(max, N))

\* x_range, y_range, z_range: each adds the half bin of the x axis
SampleRange(max, offset_max, N) ==
    [n \in 0..(N - 1) |-> RAdd(Linspace(max, N, n), Norm(offset_max, 2 * N))]

(***************************************************************************)
(* The wrap step in binary floating point.  numpy computes in float64: every *)
(* product, sum and difference is rounded to the nearest number with a      *)
(* 53-bit significand, ties to even.  The model keeps the rounding rule and *)
(* shortens the significand to Prec bits; the exponent range is not bounded *)
(* (the values met are far from float64's overflow and underflow).          *)
(***************************************************************************)
\* bits of the significand
Prec == 4

RECURSIVE Pow2(_)
Pow2(n) == IF n = 0 THEN 1 ELSE 2 * Pow2(n - 1)

RLess(p, q) == p[1] * q[2] < q[1] * p[2]

\* the integer nearest to q >= 0, a tie going to the even one
RoundHalfEven(q) ==
    LET f == RFloor(q)
        twice == RSub(RMul(RInt(2), q), RInt(2 * f))
    IN  IF RLess(twice, RInt(1)) THEN f
        ELSE IF RLess(RInt(1), twice) THEN f + 1
        ELSE IF f % 2 = 0 THEN f ELSE f + 1

\* the e with 2^e <= n/d < 2^(e+1), for n/d > 0
RECURSIVE Log2Floor(_, _)
Log2Floor(n, d) ==
    IF n >= 2 * d THEN Log2Floor(n, 2 * d) + 1
    ELSE IF n < d THEN Log2Floor(2 * n, d) - 1
    ELSE 0

\* q * 2^e
Scale2(q, e) == IF e >= 0 THEN RMul(q, RInt(Pow2(e))) ELSE RMul(q, <<1, Pow2(-e)>>)

\* the floating-point number nearest to the rational q
Fl(q) ==
    IF q[1] = 0 THEN q
    ELSE LET a == <<Abs(q[1]), q[2]>>
             sh == Log2Floor(a[1], a[2]) - (Prec - 1)
             r == Scale2(RInt(RoundHalfEven(Scale2(a, -sh))), sh)
         IN  IF q[1] < 0 THEN RNeg(r) ELSE r

\* one component of M_lattice - np.floor(M_lattice): np.floor is exact, the
\* difference is rounded
FractionalFloat(x) == Fl(RSub(x, RInt(RFloor(x))))

\* The wrap step of get_voxels for a diagonal lattice diag(L[1], L[2], L[3]),
\* the sides and the point being floating-point numbers.  np.linalg.inv of a
\* diagonal matrix is the diagonal of the rounded reciprocals; in each component
\* of transfer_matrix @ M and of vectors.T @ (...) the two products with an
\* off-diagonal 0 are exact zeros, so the component is the one rounded product.
WrapFloat(L, M) ==
    [c \in 1..3 |->
        LET t == Fl(<<L[c][2], L[c][1]>>)
            M_lattice == Fl(RMul(t, M[c]))
        IN  Fl(RMul(L[c], FractionalFloat(M_lattice)))]

(***************************************************************************)
(* Inputs                                                                  *)
(***************************************************************************)
\* largest resolution of the model
MaxRes == 2

Resolutions == (-1)..MaxRes

\* (x_max, y_max, z_max)
Extents ==
    { <<400, 400, 400>>, <<400, 800, 400>>, <<800, 400, 1200>>,
      <<0, 400, 400>>, <<400, -400, 400>>, <<400, 400, 0>> }

Cubic == << <<400, 0, 0>>, <<0, 400, 0>>, <<0, 0, 400>> >>

Skewed == << <<400, 0, 0>>, <<200, 400, 0>>, <<0, 200, 400>> >>

\* two equal rows: the factorisation of np.linalg.inv meets an exact zero pivot
Singular == << <<400, 0, 0>>, <<400, 0, 0>>, <<0, 0, 400>> >>

\* a file with two lattice_vector lines only
TwoVectors == << <<400, 0, 0>>, <<0, 400, 0>> >>

Lattices == {Cubic, Skewed, Singular, TwoVectors}

AtomLists ==
    { << >>,
      << <<100, 100, 100, "O">> >>,
      << <<100, 300, 100, "Al">>, <<300, 100, 252, "O">> >>,
      << <<1100, 100, 100, "O">> >>,
      << <<100, 100, 100, "Zz">>, <<300, 100, 100, "O">> >>,
      << <<100, 100, 100, "In">>, <<300, 100, 100, "Ga">>, <<100, 300, 300, "Zz">> >> }

LatticeLine(v) == <<LATTICE_VECTOR, Num(v[1]), Num(v[2]), Num(v[3])>>

AtomLine(a) == <<ATOM, Num(a[1]), Num(a[2]), Num(a[3]), Sym(a[4])>>

\* a comment, a blank line, the lattice vectors, a blank line, the atoms
FileOf(lattice, atoms) ==
    << <<HASH, Sym("comment")>>, << >> >>
        \o [n \in 1..Len(lattice) |-> LatticeLine(lattice[n])]
        \o << << >> >>
        \o [n \in 1..Len(atoms) |-> AtomLine(atoms[n])]

\* first words that begin with a keyword of read_xyz without being one, and a
\* first word that begins with neither
ATOMS == ATOM \o <<"s">>

ATOMIC == ATOM \o <<"i", "c">>

LATTICE_VECTORS == LATTICE_VECTOR \o <<"s">>

SPECIES == <<"s", "p", "e", "c", "i", "e", "s">>

\* lines that are neither an atom nor a lattice_vector record: an atom count, a
\* line with the shape of an atom record, one with the shape of a lattice row,
\* and a line of another keyword
OtherLines ==
    { <<ATOMS, Num(2)>>,
      <<ATOMIC, Num(300), Num(300), Num(300), Sym("O")>>,
      <<LATTICE_VECTORS, Num(0), Num(0), Num(400)>>,
      <<SPECIES, Sym("O")>> }

\* FileOf(lattice, atoms) with one more line after the comment
FileWith(line, lattice, atoms) ==
    <<FileOf(lattice, atoms)[1], line>> \o Tail(FileOf(lattice, atoms))

Files ==
    { FileOf(l, a) : l \in Lattices, a \in AtomLists }
        \cup { FileWith(o, l, << <<100, 100, 100, "O">> >>) :
                    o \in OtherLines, l \in {Cubic, TwoVectors} }

(***************************************************************************)
(* State                                                                   *)
(***************************************************************************)
VARIABLES
    xyz_file, resolution, x_max, y_max, z_max,  \* the arguments
    pc,                 \* the statement about to run
    err,                \* the exception raised, "" when none
    pos,                \* read_xyz: index of the next line of xyz_file
    kinds, centers, radii, vectors,              \* read_xyz: the lists built
    allocated,          \* get_voxels: np.zeros has returned
    voxels,             \* get_voxels: the array, indexed <<k, j, i>>
    augmented,          \* get_voxels: the entries of repeat_once
    squared_radii,
    transfer_matrix,
    x_range, y_range, z_range,
    i, j, k,            \* get_voxels: the loop indices
    returned,           \* get_voxels has returned
    result,             \* the array get_voxels returned
    lk_pc, lk_point, lk_centers, lk_sq, lk_count,   \* a call of lookup_voxel
    fw_pc, fw_lattice, fw_M, fw_once, fw_twice      \* the wrap step, applied twice

inputs == <<xyz_file, resolution, x_max, y_max, z_max>>

parsed == <<pos, kinds, centers, radii, vectors>>

kernel ==
    <<allocated, voxels, augmented, squared_radii, transfer_matrix,
      x_range, y_range, z_range, i, j, k, returned, result>>

lookup == <<lk_pc, lk_point, lk_centers, lk_sq, lk_count>>

wrap == <<fw_pc, fw_lattice, fw_M, fw_once, fw_twice>>

units == <<lookup, wrap>>

pipeline == <<inputs, pc, err, parsed, kernel>>

vars == <<pipeline, units>>

\* no call of lookup_voxel alone
LookupIdle ==
    /\ lk_pc = "idle" /\ lk_point = << >> /\ lk_centers = << >> /\ lk_sq = << >>
    /\ lk_count = 0

\* no wrap step alone
WrapIdle ==
    /\ fw_pc = "idle" /\ fw_lattice = << >> /\ fw_M = << >> /\ fw_once = << >>
    /\ fw_twice = << >>

\* read_xyz and get_voxels do not run
PipelineIdle ==
    /\ xyz_file = << >> /\ resolution = 0 /\ x_max = 0 /\ y_max = 0 /\ z_max = 0
    /\ pc = "idle" /\ err = "" /\ pos = 1
    /\ kinds = << >> /\ centers = << >> /\ radii = << >> /\ vectors = << >>
    /\ allocated = FALSE /\ voxels = << >> /\ augmented = << >>
    /\ squared_radii = << >> /\ transfer_matrix = << >>
    /\ x_range = << >> /\ y_range = << >> /\ z_range = << >>
    /\ i = 0 /\ j = 0 /\ k = 0 /\ returned = FALSE /\ result = << >>

Init ==
    /\ xyz_file \in Files
    /\ resolution \in Resolutions
    /\ \E e \in Extents : x_max = e[1] /\ y_max = e[2] /\ z_max = e[3]
    /\ pc = "read"
    /\ err = ""
    /\ pos = 1
    /\ kinds = << >> /\ centers = << >> /\ radii = << >> /\ vectors = << >>
    /\ allocated = FALSE
    /\ voxels = << >>
    /\ augmented = << >>
    /\ squared_radii = << >>
    /\ transfer_matrix = << >>
    /\ x_range = << >> /\ y_range = << >> /\ z_range = << >>
    /\ i = 0 /\ j = 0 /\ k = 0
    /\ returned = FALSE
    /\ result = << >>
    /\ LookupIdle /\ WrapIdle

\* an exception leaves the function: nothing more runs
Raise(name) == err' = name /\ pc' = pc

(***************************************************************************)
(* read_xyz                                                                *)
(***************************************************************************)
\* VDW_RADII.get(kind, 0): an unknown kind gets a radius instead of a KeyError
KindLookup_default(kind) ==
    [found |-> TRUE,
     radius |-> IF kind \in DOMAIN VDW_RADII THEN VDW_RADII[kind] ELSE 0]

\* VDW_RADII[kind]: the radius, or a KeyError when the table has no such key
KindLookup(kind) ==
    IF kind \in DOMAIN VDW_RADII
    THEN [found |-> TRUE, radius |-> VDW_RADII[kind]]
    ELSE [found |-> FALSE, radius |-> 0]

\* one iteration of `for line in xyz_file`
ReadLine ==
    /\ pc = "read" /\ err = "" /\ pos <= Len(xyz_file)
    /\ LET line == xyz_file[pos] IN
       IF LineStartsWith(line, LATTICE_VECTOR) THEN
           IF \A n \in 2..Len(line) : IsNumber(line[n])
           THEN /\ vectors' = Append(vectors, [n \in 1..(Len(line) - 1) |-> Float(line[n + 1])])
                /\ pos' = pos + 1
                /\ UNCHANGED <<pc, err, kinds, centers, radii>>
           ELSE /\ Raise("ValueError")
                /\ UNCHANGED parsed
       ELSE IF LineStartsWith(line, ATOM) THEN
           IF Len(line) # 5
           THEN /\ Raise("ValueError")
                /\ UNCHANGED parsed
           ELSE IF ~ \A n \in 2..4 : IsNumber(line[n])
           THEN /\ Raise("ValueError")
                /\ kinds' = Append(kinds, Text(line[5]))
                /\ UNCHANGED <<pos, centers, radii, vectors>>
           ELSE IF ~ KindLookup(Text(line[5])).found
           THEN /\ Raise("KeyError")
                /\ kinds' = Append(kinds, Text(line[5]))
                /\ centers' = Append(centers, <<Float(line[2]), Float(line[3]), Float(line[4])>>)
                /\ UNCHANGED <<pos, radii, vectors>>
           ELSE /\ kinds' = Append(kinds, Text(line[5]))
                /\ centers' = Append(centers, <<Float(line[2]), Float(line[3]), Float(line[4])>>)
                /\ radii' = Append(radii, KindLookup(Text(line[5])).radius)
                /\ pos' = pos + 1
                /\ UNCHANGED <<pc, err, vectors>>
       ELSE /\ pos' = pos + 1
            /\ UNCHANGED <<pc, err, kinds, centers, radii, vectors>>
    /\ UNCHANGED <<units, inputs, kernel>>

\* read_xyz checking the lattice it built before it returns
ReadReturn_checked ==
    /\ pc = "read" /\ err = "" /\ pos > Len(xyz_file)
    /\ IF Len(vectors) = 3 /\ Det(vectors) = 0
       THEN Raise("LinAlgError")
       ELSE pc' = "zeros" /\ err' = err
    /\ UNCHANGED <<units, inputs, parsed, kernel>>

\* `return (kinds, centers, radii), vectors`; the caller passes them to get_voxels
ReadReturn ==
    /\ pc = "read" /\ err = "" /\ pos > Len(xyz_file)
    /\ pc' = "zeros"
    /\ UNCHANGED <<units, inputs, err, parsed, kernel>>

(***************************************************************************)
(* get_voxels                                                              *)
(***************************************************************************)
Indices(N) == (0..(N - 1)) \X (0..(N - 1)) \X (0..(N - 1))

\* voxels = np.zeros((resolution, resolution, resolution))
Zeros ==
    /\ pc = "zeros" /\ err = ""
    /\ IF resolution < 0
       THEN /\ Raise("ValueError")
            /\ UNCHANGED <<allocated, voxels>>
       ELSE /\ voxels' = [idx \in Indices(resolution) |-> 0]
            /\ allocated' = TRUE
            /\ pc' = "repeat_once"
            /\ err' = err
    /\ UNCHANGED <<units, inputs, parsed, augmented, squared_radii, transfer_matrix,
                   x_range, y_range, z_range, i, j, k, returned, result>>

\* centers, radii = repeat_once(atoms, vectors); squared_radii = radii**2
\* (`v1, v2, v3 = vectors` raises ValueError unless there are three rows)
RepeatOnce ==
    /\ pc = "repeat_once" /\ err = ""
    /\ IF Len(vectors) # 3
       THEN /\ Raise("ValueError")
            /\ UNCHANGED <<augmented, squared_radii>>
       ELSE /\ augmented' = repeat_once(centers, radii, vectors)
            /\ squared_radii' =
                   [n \in 1..Len(augmented') |-> augmented'[n].radius * augmented'[n].radius]
            /\ pc' = "inv"
            /\ err' = err
    /\ UNCHANGED <<units, inputs, parsed, allocated, voxels, transfer_matrix,
                   x_range, y_range, z_range, i, j, k, returned, result>>

\* transfer_matrix = np.linalg.inv(vectors).T
Invert ==
    /\ pc = "inv" /\ err = ""
    /\ IF Det(vectors) = 0
       THEN /\ Raise("LinAlgError")
            /\ UNCHANGED transfer_matrix
       ELSE /\ transfer_matrix' = TransferMatrix(vectors)
            /\ pc' = "linspace"
            /\ err' = err
    /\ UNCHANGED <<units, inputs, parsed, allocated, voxels, augmented, squared_radii,
                   x_range, y_range, z_range, i, j, k, returned, result>>

\* x_max / (2*resolution) on numpy scalars: inf and a warning, no exception
DividesByZero_never(N) == FALSE

\* x_max / (2*resolution) on Python numbers raises ZeroDivisionError
DividesByZero(N) == 2 * N = 0

\* the three np.linspace lines, each adding x_max / (2*resolution)
Ranges ==
    /\ pc = "linspace" /\ err = ""
    /\ IF DividesByZero(resolution)
       THEN /\ Raise("ZeroDivisionError")
            /\ UNCHANGED <<x_range, y_range, z_range>>
       ELSE /\ x_range' = SampleRange(x_max, x_max, resolution)
            /\ y_range' = SampleRange(y_max, x_max, resolution)
            /\ z_range' = SampleRange(z_max, x_max, resolution)
            /\ pc' = "loop"
            /\ err' = err
    /\ UNCHANGED <<units, inputs, parsed, allocated, voxels, augmented, squared_radii,
                   transfer_matrix, i, j, k, returned, result>>

\* the point M of the loop indices
SamplePoint(ii, jj, kk) == <<x_range[ii], y_range[jj], z_range[kk]>>

AugmentedCenters == [n \in 1..Len(augmented) |-> augmented[n].center]

\* voxels[i, j, k]: the axes in loop order
StoreIndex_ijk(ii, jj, kk) == <<ii, jj, kk>>

\* the index the loop body stores into: voxels[k, j, i]
StoreIndex(ii, jj, kk) == <<kk, jj, ii>>

\* one pass of the innermost loop body, and the step to the next (i, j, k)
Sample ==
    /\ pc = "loop" /\ err = "" /\ i < resolution
    /\ IF Len(augmented) = 0
       THEN \* (M_cell - centers): shapes (3,) and (0,) do not broadcast
            /\ Raise("ValueError")
            /\ UNCHANGED <<voxels, i, j, k>>
       ELSE /\ LET M_cell == Wrap(vectors, transfer_matrix, SamplePoint(i, j, k))
               IN  voxels' = [voxels EXCEPT ![StoreIndex(i, j, k)] =
                                  lookup_voxel(M_cell, AugmentedCenters, squared_radii)]
            /\ IF k + 1 < resolution
               THEN k' = k + 1 /\ UNCHANGED <<i, j>>
               ELSE IF j + 1 < resolution
               THEN k' = 0 /\ j' = j + 1 /\ UNCHANGED i
               ELSE k' = 0 /\ j' = 0 /\ i' = i + 1
            /\ UNCHANGED <<pc, err>>
    /\ UNCHANGED <<units, inputs, parsed, allocated, augmented, squared_radii,
                   transfer_matrix, x_range, y_range, z_range, returned, result>>

\* return voxels
Return ==
    /\ pc = "loop" /\ err = "" /\ i >= resolution
    /\ result' = voxels
    /\ returned' = TRUE
    /\ pc' = "done"
    /\ UNCHANGED <<units, inputs, err, parsed, allocated, voxels, augmented, squared_radii,
                   transfer_matrix, x_range, y_range, z_range, i, j, k>>

Next ==
    \/ ReadLine
    \/ ReadReturn
    \/ Zeros
    \/ RepeatOnce
    \/ Invert
    \/ Ranges
    \/ Sample
    \/ Return

Spec == Init /\ [][Next]_vars

(***************************************************************************)
(* lookup_voxel on its own                                                 *)
(***************************************************************************)
\* largest squared radius of a call
MaxSquaredRadius == 2

\* points with coordinates in halves
LookupPoints == { <<Norm(a, 2), Norm(b, 2), RInt(0)>> : a \in (-1)..3, b \in {0, 2} }

LookupCenters == { <<0, 0, 0>>, <<1, 0, 0>>, <<0, 1, 0>> }

InitLookup ==
    /\ PipelineIdle /\ WrapIdle
    /\ lk_pc = "call"
    /\ lk_point \in LookupPoints
    /\ \E n \in 1..2 :
          /\ lk_centers \in [1..n -> LookupCenters]
          /\ lk_sq \in [1..n -> 0..MaxSquaredRadius]
    /\ lk_count = 0

\* lookup_voxel(M_cell, centers, squared_radii)
Lookup ==
    /\ lk_pc = "call"
    /\ lk_count' = lookup_voxel(lk_point, lk_centers, lk_sq)
    /\ lk_pc' = "done"
    /\ UNCHANGED <<pipeline, wrap, lk_point, lk_centers, lk_sq>>

SpecLookup == InitLookup /\ [][Lookup]_vars

(***************************************************************************)
(* the wrap step on its own, in floating point                             *)
(***************************************************************************)
\* the sides of the diagonal lattices: powers of two, whose reciprocals are exact
WrapLattices ==
    { <<RInt(1), RInt(1), RInt(1)>>, <<RInt(2), RInt(1), RInt(4)>>,
      <<RInt(4), RInt(4), RInt(2)>> }

\* coordinates of the points: floating-point numbers, the first two negative
\* and smaller in magnitude than half the gap between 1 and the number before it
WrapCoordinates ==
    { <<-1, Pow2(Prec + 2)>>, <<-1, Pow2(Prec + 1)>>, <<-1, 2>>, <<0, 1>>,
      <<1, 2>>, <<1, 1>>, <<5, 2>> }

InitWrap ==
    /\ PipelineIdle /\ LookupIdle
    /\ fw_pc = "start"
    /\ fw_lattice \in WrapLattices
    /\ fw_M \in [1..3 -> WrapCoordinates]
    /\ fw_once = << >> /\ fw_twice = << >>

\* M_cell = wrap(M)
WrapOnce ==
    /\ fw_pc = "start"
    /\ fw_once' = WrapFloat(fw_lattice, fw_M)
    /\ fw_pc' = "once"
    /\ UNCHANGED <<pipeline, lookup, fw_lattice, fw_M, fw_twice>>

\* wrap(M_cell)
WrapTwice ==
    /\ fw_pc = "once"
    /\ fw_twice' = WrapFloat(fw_lattice, fw_once)
    /\ fw_pc' = "twice"
    /\ UNCHANGED <<pipeline, lookup, fw_lattice, fw_M, fw_once>>

NextWrap == WrapOnce \/ WrapTwice

SpecWrap == InitWrap /\ [][NextWrap]_vars

(***************************************************************************)
(* Properties                                                              *)
(***************************************************************************)
\* repeat_once has returned into get_voxels
Expanded == pc \in {"inv", "linspace", "loop", "done"}

\* the ranges are computed and the loops run, or have run
Sampling == pc \in {"loop", "done"} /\ err = ""

\* (ii, jj, kk) comes before the loop indices (i, j, k): its pass has run
Visited(ii, jj, kk) ==
    \/ ii < i
    \/ ii = i /\ jj < j
    \/ ii = i /\ jj = j /\ kk < k

\* the sampling bounds of a valid sampling specification
PositiveBounds == x_max > 0 /\ y_max > 0 /\ z_max > 0

\* periodic images are counted for k1, k2, k3 in -ImageReach..ImageReach: with the
\* atoms, lattices and extents of the model no further image reaches a sample
ImageReach == 4

\* every radius is smaller than the length of every lattice vector
RadiiWithinCell ==
    \A a \in 1..Len(radii) : \A n \in 1..3 :
        radii[a] * radii[a] < vectors[n][1] * vectors[n][1]
            + vectors[n][2] * vectors[n][2] + vectors[n][3] * vectors[n][3]

\* the number of pairs (atom a, (k1, k2, k3)) whose sphere contains the point M
AllImagesCount(M) ==
    LET R == (-ImageReach)..ImageReach
        Count(P, q) ==
            Cardinality({t \in (1..Len(centers)) \X R \X R \X R :
                Within(<<P[1][1] * (q \div P[1][2]), P[2][1] * (q \div P[2][2]),
                         P[3][1] * (q \div P[3][2])>>, q,
                       [c \in 1..3 |-> centers[t[1]][c] + t[2] * vectors[1][c]
                                         + t[3] * vectors[2][c] + t[4] * vectors[3][c]],
                       radii[t[1]] * radii[t[1]])})
    IN  CHOOSE count \in
            { Count(P, LCM(LCM(P[1][2], P[2][2]), P[3][2])) : P \in {M} } : TRUE

\* C1: when every radius is smaller than the cell dimensions, the value stored
\* for a sample point M is the number of pairs (atom, (k1,k2,k3) in Z^3) whose
\* sphere, centred at center + k1*v1 + k2*v2 + k3*v3, contains M.
C1_CountsAllImages ==
    (Sampling /\ PositiveBounds /\ RadiiWithinCell) =>
        \A ii \in 0..(resolution - 1), jj \in 0..(resolution - 1),
           kk \in 0..(resolution - 1) :
            Visited(ii, jj, kk) =>
                voxels[<<kk, jj, ii>>] = AllImagesCount(SamplePoint(ii, jj, kk))

\* C2: repeat_once returns 27*A entries; the entry at (0-based) index
\* ((k1+1)*9 + (k2+1)*3 + (k3+1))*A + a has the center of atom a translated by
\* k1*v1 + k2*v2 + k3*v3 and the radius of atom a; (0,0,0) gives the atoms back.
C2_RepeatOnceLayout ==
    Expanded =>
        LET A == Len(centers) IN
        /\ Len(augmented) = 27 * A
        /\ \A k1 \in -1..1, k2 \in -1..1, k3 \in -1..1 : \A a \in 1..A :
              LET e == augmented[((k1 + 1) * 9 + (k2 + 1) * 3 + (k3 + 1)) * A + a] IN
              /\ e.radius = radii[a]
              /\ \A c \in 1..3 :
                    e.center[c] = centers[a][c] + k1 * vectors[1][c]
                                    + k2 * vectors[2][c] + k3 * vectors[3][c]
        /\ \A a \in 1..A : augmented[13 * A + a] = [center |-> centers[a], radius |-> radii[a]]

C2_Witness == Expanded /\ Len(centers) = 2 /\ vectors = Skewed

\* the occupancy count of the wrapped point of the sample (ii, jj, kk)
Occupancy(ii, jj, kk) ==
    lookup_voxel(Wrap(vectors, transfer_matrix, SamplePoint(ii, jj, kk)),
                 AugmentedCenters, squared_radii)

\* C3: while the loops run and in the returned array, position [k, j, i] holds the
\* occupancy count of the wrapped sample (x_i, y_j, z_k) once its pass has run,
\* and every position whose pass has not run still holds the 0 of np.zeros.
C3_IndexOrder ==
    Sampling =>
        /\ DOMAIN voxels = Indices(resolution)
        /\ \A ii \in 0..(resolution - 1), jj \in 0..(resolution - 1),
              kk \in 0..(resolution - 1) :
              voxels[<<kk, jj, ii>>] =
                  IF Visited(ii, jj, kk) THEN Occupancy(ii, jj, kk) ELSE 0
        /\ returned => (result = voxels /\ i = resolution)

C3_Witness ==
    /\ returned /\ resolution = 2
    /\ result[<<0, 0, 1>>] # result[<<1, 0, 0>>]
    /\ result[<<0, 0, 1>>] = Occupancy(1, 0, 0)

\* i * max / N + max / (2N)
BinCenter(max, N, n) == RAdd(Norm(n * max, N), Norm(max, 2 * N))

\* C4: on each axis, the i-th sample coordinate is i*max/N + max/(2N) with that
\* axis's own bound max.
C4_BinCenteredSamples ==
    (Sampling /\ PositiveBounds) =>
        \A n \in 0..(resolution - 1) :
            /\ x_range[n] = BinCenter(x_max, resolution, n)
            /\ y_range[n] = BinCenter(y_max, resolution, n)
            /\ z_range[n] = BinCenter(z_max, resolution, n)

\* read_xyz has returned a structure whose lattice is three vectors and invertible
ValidStructure == pc # "read" /\ Len(vectors) = 3 /\ Det(vectors) # 0

\* C5: on a valid structure with N >= 1 get_voxels does not fail and what it
\* returns is a complete N x N x N grid, all 0 when there is no atom.
C5_CompleteGrid ==
    (ValidStructure /\ resolution >= 1 /\ PositiveBounds) =>
        /\ err = ""
        /\ returned =>
              /\ DOMAIN result = Indices(resolution)
              /\ centers = << >> => \A idx \in Indices(resolution) : result[idx] = 0

\* C7 as stated: with resolution <= 0 or a bound <= 0 the call fails before the
\* output grid is allocated, and no grid is returned.
C7_RejectedBeforeAllocation ==
    (resolution <= 0 \/ ~PositiveBounds) => (~allocated /\ ~returned)

\* C7 as amended: a negative resolution makes np.zeros raise ValueError, so no
\* grid is allocated; resolution 0 gets past np.zeros and the call fails at the
\* latest when the half bin is computed (ZeroDivisionError, the empty grid being
\* allocated); in both cases nothing is returned.  The bounds are not checked:
\* with resolution >= 1, once the lattice is inverted and there are atoms, no
\* step fails whatever the signs of x_max, y_max, z_max.
C7_ResolutionFailsBoundsUnchecked ==
    /\ resolution < 0 =>
          /\ pc \in {"read", "zeros"} /\ ~allocated /\ ~returned
          /\ (pc = "zeros" /\ err # "") => err = "ValueError"
    /\ resolution = 0 =>
          /\ pc \in {"read", "zeros", "repeat_once", "inv", "linspace"} /\ ~returned
          /\ (pc = "linspace" /\ err # "") => (err = "ZeroDivisionError" /\ allocated)
    /\ (resolution >= 1 /\ pc \in {"linspace", "loop", "done"} /\ Len(augmented) > 0) =>
          err = ""

C7_Witness ==
    resolution = 0 /\ pc = "linspace" /\ err = "ZeroDivisionError" /\ allocated

\* read_xyz has returned a structure whose lattice is singular
SingularReturned == pc # "read" /\ Len(vectors) = 3 /\ Det(vectors) = 0

UnknownKindAt(n) ==
    /\ LineStartsWith(xyz_file[n], ATOM) /\ Len(xyz_file[n]) = 5
    /\ Text(xyz_file[n][5]) \notin DOMAIN VDW_RADII

\* every atom and lattice_vector record of the file has its tokens
WellFormed ==
    \A n \in 1..Len(xyz_file) :
        LET line == xyz_file[n] IN
        /\ LineStartsWith(line, LATTICE_VECTOR) =>
              (Len(line) = 4 /\ \A t \in 2..4 : IsNumber(line[t]))
        /\ (LineStartsWith(line, ATOM) /\ ~LineStartsWith(line, LATTICE_VECTOR)) =>
              (Len(line) = 5 /\ \A t \in 2..4 : IsNumber(line[t]))

\* C9: when an atom record, at any place of the input, has a kind that is no key
\* of the table, read_xyz fails with KeyError at the first such record: it never
\* returns, and get_voxels does not start.
C9_UnknownKindFailsParse ==
    (WellFormed /\ \E n \in 1..Len(xyz_file) : UnknownKindAt(n)) =>
        LET first == CHOOSE n \in 1..Len(xyz_file) :
                        UnknownKindAt(n) /\ \A m \in 1..(n - 1) : ~UnknownKindAt(m)
        IN  /\ pc = "read" /\ pos <= first
            /\ ~allocated /\ ~returned
            /\ err # "" => (err = "KeyError" /\ pos = first)

C9_Witness == err = "KeyError" /\ Len(kinds) = 3 /\ Len(radii) = 2

\* C6: lookup_voxel returns the number of indices n whose squared distance from
\* the point to centers[n] is at most squared_radii[n]: equality counts, anything
\* greater does not, and the count is not cut at 1.  (The coordinates of the point
\* are halves: 4 * distance^2 is compared with 4 * squared_radii[n].)
C6_InclusiveCount ==
    lk_pc = "done" =>
        LET Twice(n, c) == lk_point[c][1] * (2 \div lk_point[c][2]) - 2 * lk_centers[n][c]
            D4(n) == Twice(n, 1) * Twice(n, 1) + Twice(n, 2) * Twice(n, 2)
                        + Twice(n, 3) * Twice(n, 3)
        IN  /\ lk_count = Cardinality({n \in 1..Len(lk_centers) : D4(n) <= 4 * lk_sq[n]})
            /\ (\A n \in 1..Len(lk_centers) : D4(n) = 4 * lk_sq[n]) =>
                  lk_count = Len(lk_centers)
            /\ (\A n \in 1..Len(lk_centers) : D4(n) > 4 * lk_sq[n]) => lk_count = 0

\* two spheres contain the point, which lies on the surface of the first
C6_Witness ==
    /\ lk_pc = "done" /\ lk_count = 2
    /\ lk_point = <<RInt(1), RInt(1), RInt(0)>>
    /\ lk_centers = << <<0, 1, 0>>, <<1, 0, 0>> >>
    /\ lk_sq = <<1, 2>>

\* C10: the wrap step is idempotent: wrap(wrap(M)) = wrap(M).
C10_WrapIdempotent == fw_pc = "twice" => fw_twice = fw_once

\* the lines among the first n of the file whose first word is exactly keyword
RecordsOf(keyword, n) ==
    LET IsRecord(line) == Len(line) > 0 /\ line[1] = keyword
    IN  SelectSeq(SubSeq(xyz_file, 1, n), IsRecord)

\* line n of the file is an atom or a lattice_vector record
IsRecordAt(n) == Len(xyz_file[n]) > 0 /\ xyz_file[n][1] \in {ATOM, LATTICE_VECTOR}

\* the number of lines read_xyz has gone through without failing
LinesRead == IF pc = "read" THEN pos - 1 ELSE Len(xyz_file)

\* C11: read_xyz builds the structure only from the lines whose first word is
\* exactly lattice_vector or atom, in file order: one lattice row per
\* lattice_vector line; the kind, the center and the table radius per atom line.
\* Every other line, one whose first word merely begins with atom or
\* lattice_vector included, changes nothing of the result and causes no failure.
C11_OnlyExactKeywords ==
    /\ (pc = "read" /\ err # "") => IsRecordAt(pos)
    /\ err = "" =>
          LET rows == RecordsOf(LATTICE_VECTOR, LinesRead)
              atoms == RecordsOf(ATOM, LinesRead)
          IN  /\ vectors = [n \in 1..Len(rows) |->
                                [c \in 1..(Len(rows[n]) - 1) |-> Float(rows[n][c + 1])]]
              /\ kinds = [n \in 1..Len(atoms) |-> Text(atoms[n][5])]
              /\ centers = [n \in 1..Len(atoms) |->
                                <<Float(atoms[n][2]), Float(atoms[n][3]), Float(atoms[n][4])>>]
              /\ radii = [n \in 1..Len(atoms) |-> KindLookup(Text(atoms[n][5])).radius]

====
